---- MODULE Spec2Model ----
(***************************************************************************)
(* mcp-obs Python server SDK: the telemetry export path (CircuitBreaker,   *)
(* MCPJsonOTLPExporter, ResilientOTLPExporter, configure_mcp_telemetry)    *)
(* and the OAuth token validation path (OAuthTokenValidator,               *)
(* McpObsTokenVerifier, with_oauth, the transport adapters' with_oauth     *)
(* and extract_token, and the challenge headers).                          *)
(*                                                                         *)
(* The breaker runs on one asyncio event loop: the code between two awaits *)
(* is one atomic step.  ResilientOTLPExporter.export reaches its only      *)
(* await (loop.run_in_executor) after the breaker's gate, and resumes in   *)
(* _on_success / _on_failure, so one export call is two steps: ExportCall  *)
(* (gate and submission) and SinkRespond or Cancel (completion).           *)
(***************************************************************************)
EXTENDS Integers, Sequences, FiniteSets, TLC

\* ---------------------------------------------------------------- bounds
\* concurrent export tasks on the one event loop
MaxCallers == 2
\* clock advances the model takes
MaxTicks == 3
\* adapters and transport decorators constructed in one process
MaxObjects == 2

\* ------------------------------------------------------ program constants
\* create_circuit_breaker(): failure_threshold=5
failure_threshold == 5
\* create_circuit_breaker(): reset_timeout=60000 (milliseconds)
reset_timeout == 60000

Callers == 1..MaxCallers

\* time.time() * 1000 at construction: the epoch clock is far past
\* last_failure_time = 0, the value __init__ stores
StartTime == 2 * reset_timeout

\* the clock advances by one millisecond or by a whole reset_timeout
TimeSteps == {1, reset_timeout}

\* what comes back from requests.post / the conversion inside
\* MCPJsonOTLPExporter.export
SinkResponses ==
    {[kind |-> "status", code |-> s] : s \in {200, 204, 500}}
    \cup {[kind |-> k, code |-> 0] : k \in {"timeout", "conn_error", "convert_error"}}

Batches == {"empty", "spans"}

VARIABLES
    state,              \* CircuitBreaker.state
    failures,           \* CircuitBreaker.failures
    last_failure_time,  \* CircuitBreaker.last_failure_time
    now,                \* time.time() * 1000
    ticks,              \* clock advances taken
    shutdown,           \* ResilientOTLPExporter._shutdown
    processor,          \* the exporter BatchSpanProcessor was given
    calls,              \* per export task: where it is
    consec,             \* guarded-call failures since the last success
    failed_at,          \* clock reading at the latest failure booked, 0 if none
    last,               \* the step just taken and what it returned
    runs,               \* token validations: input, introspection answer, outcome
    _global_validator,  \* oauth_middleware._global_validator: its config, or none
    objects             \* the adapters and transport decorators constructed

bvars == <<state, failures, last_failure_time, now, ticks, shutdown,
           processor, calls, consec, failed_at, last>>

\* the module-level validator and what was built around it
wvars == <<_global_validator, objects>>

avars == <<runs, _global_validator, objects>>

vars == <<state, failures, last_failure_time, now, ticks, shutdown,
          processor, calls, consec, failed_at, last, runs, _global_validator, objects>>

Idle == [pc |-> "idle", trial |-> FALSE, during_trial |-> FALSE]

NoResponse == [kind |-> "none", code |-> 0]

Breaker == [state |-> state, failures |-> failures,
            last_failure_time |-> last_failure_time]

Event(op, c, result, raised, invoked, via, trial, resp) ==
    [op |-> op, c |-> c, result |-> result, raised |-> raised,
     invoked |-> invoked, via_breaker |-> via, trial |-> trial,
     resp |-> resp, pre |-> Breaker, at |-> now, sd |-> shutdown]

\* ------------------------------------------------------- CircuitBreaker

\* the gate with the comparison >= in place of >
execute_gate_ge(st, lft, t) ==
    IF st = "OPEN"
    THEN IF t - lft >= reset_timeout THEN "HALF_OPEN" ELSE "REJECT"
    ELSE st

\* execute, lines 62-67: the state the call proceeds in, or REJECT
execute_gate(st, lft, t) ==
    IF st = "OPEN"
    THEN IF t - lft > reset_timeout THEN "HALF_OPEN" ELSE "REJECT"
    ELSE st

\* a success that resets the counter and leaves the state as it is
_on_success_keeps_state(b) ==
    [b EXCEPT !.failures = 0]

\* _on_success, lines 77-80
_on_success(b) ==
    [b EXCEPT !.failures = 0, !.state = "CLOSED"]

\* a failure booked without its time
_on_failure_keeps_time(b, t) ==
    LET f == b.failures + 1 IN
    [state |-> IF f >= failure_threshold THEN "OPEN" ELSE b.state,
     failures |-> f,
     last_failure_time |-> b.last_failure_time]

\* opening one failure late: > in place of >=
_on_failure_gt(b, t) ==
    LET f == b.failures + 1 IN
    [state |-> IF f > failure_threshold THEN "OPEN" ELSE b.state,
     failures |-> f,
     last_failure_time |-> t]

_on_failure(b, t) ==
    LET f == b.failures + 1 IN
    [state |-> IF f >= failure_threshold THEN "OPEN" ELSE b.state,
     failures |-> f,
     last_failure_time |-> t]

\* a rejection booked as one more failure
execute_reject_as_failure(b, t) == _on_failure(b, t)

\* execute, lines 66-67: the rejection raises before the try block, nothing
\* is assigned
execute_reject(b, t) == b

\* get_state, line 92
get_state(b) == b.state

\* get_stats, lines 96-100
get_stats(b) ==
    [state |-> b.state, failures |-> b.failures, last_failure_time |-> b.last_failure_time]

\* execute, lines 69-75: `except Exception` sees Exception, not the
\* BaseException asyncio.CancelledError
execute_catches(exc) == exc = "Exception"

\* ------------------------------------------------- MCPJsonOTLPExporter

\* export, lines 129-156: only status 200 is SUCCESS; every exception is
\* caught and turned into FAILURE
MCPJsonOTLPExporter_export(resp) ==
    IF resp.kind = "status" /\ resp.code = 200 THEN "SUCCESS" ELSE "FAILURE"

\* whether a POST left for the sink: not when the conversion raised first
posted(resp) == resp.kind # "convert_error"

\* ----------------------------------------------- ResilientOTLPExporter

\* export without its try/except
export_catches_none(exc) == FALSE

\* export, lines 261-263: `except Exception`
export_catches(exc) == exc = "Exception"

\* export without the _shutdown test
export_skips_empty_only(spans, sd) == spans = "empty"

\* export, line 254
export_skips(spans, sd) == spans = "empty" \/ sd

TrialInFlight == \E d \in Callers : calls[d].pc = "inflight" /\ calls[d].trial

ExportCall(c, spans) ==
    /\ calls[c].pc = "idle"
    /\ IF export_skips(spans, shutdown)
       THEN /\ last' = Event("export", c, IF spans = "empty" THEN "empty" ELSE "shut_down",
                                  FALSE, FALSE, FALSE, FALSE, NoResponse)
            /\ UNCHANGED <<state, failures, last_failure_time, calls>>
       ELSE LET g == execute_gate(state, last_failure_time, now) IN
            IF g = "REJECT"
            THEN /\ last' = Event("export", c, "circuit_open",
                                  ~export_catches("Exception"), FALSE, TRUE, FALSE, NoResponse)
                 /\ state' = execute_reject(Breaker, now).state
                 /\ failures' = execute_reject(Breaker, now).failures
                 /\ last_failure_time' = execute_reject(Breaker, now).last_failure_time
                 /\ UNCHANGED calls
            ELSE /\ state' = g
                 /\ calls' = [calls EXCEPT ![c] =
                                [pc |-> "inflight", trial |-> (state = "OPEN"),
                                 during_trial |-> TrialInFlight]]
                 /\ last' = Event("export", c, "admitted", FALSE, TRUE, TRUE,
                                  state = "OPEN", NoResponse)
                 /\ UNCHANGED <<failures, last_failure_time>>
    /\ UNCHANGED <<now, ticks, shutdown, processor, consec, failed_at>>
    /\ UNCHANGED avars

\* the executor job of _export_spans ends: _sync_export returns or raises
SinkRespond(c, resp) ==
    /\ calls[c].pc = "inflight"
    /\ LET ok == MCPJsonOTLPExporter_export(resp) = "SUCCESS"
           b  == IF ok THEN _on_success(Breaker)
                 ELSE IF execute_catches("Exception") THEN _on_failure(Breaker, now)
                 ELSE Breaker
       IN /\ state' = b.state
          /\ failures' = b.failures
          /\ last_failure_time' = b.last_failure_time
          /\ consec' = IF ok THEN 0 ELSE consec + 1
          /\ failed_at' = IF ok THEN failed_at ELSE now
          /\ last' = Event("respond", c, IF ok THEN "success" ELSE "failure",
                           ~ok /\ ~export_catches("Exception"), FALSE, TRUE,
                           calls[c].trial, resp)
    /\ calls' = [calls EXCEPT ![c] = Idle]
    /\ UNCHANGED <<now, ticks, shutdown, processor>>
    /\ UNCHANGED avars

\* the task awaiting the executor is cancelled: CancelledError passes both
\* `except Exception` clauses
Cancel(c) ==
    /\ calls[c].pc = "inflight"
    /\ LET b == IF execute_catches("CancelledError") THEN _on_failure(Breaker, now)
                ELSE Breaker
       IN /\ state' = b.state
          /\ failures' = b.failures
          /\ last_failure_time' = b.last_failure_time
    /\ calls' = [calls EXCEPT ![c] = Idle]
    /\ last' = Event("cancel", c, "cancelled", ~export_catches("CancelledError"),
                     FALSE, TRUE, calls[c].trial, NoResponse)
    /\ UNCHANGED <<now, ticks, shutdown, processor, consec, failed_at>>
    /\ UNCHANGED avars

Shutdown ==
    /\ ~shutdown
    /\ shutdown' = TRUE
    /\ last' = Event("shutdown", 0, "none", FALSE, FALSE, FALSE, FALSE, NoResponse)
    /\ UNCHANGED <<state, failures, last_failure_time, now, ticks, processor, calls, consec, failed_at>>
    /\ UNCHANGED avars

\* get_state() or get_stats() is called
Observe(which) ==
    /\ last' = Event(which, 0,
                     IF which = "get_state" THEN get_state(Breaker) ELSE get_stats(Breaker).state,
                     FALSE, FALSE, FALSE, FALSE, NoResponse)
    /\ UNCHANGED <<state, failures, last_failure_time, now, ticks, shutdown, processor,
                   calls, consec, failed_at>>
    /\ UNCHANGED avars

Tick(dt) ==
    /\ ticks < MaxTicks
    /\ ticks' = ticks + 1
    /\ now' = now + dt
    /\ last' = Event("tick", 0, "none", FALSE, FALSE, FALSE, FALSE, NoResponse)
    /\ UNCHANGED <<state, failures, last_failure_time, shutdown, processor, calls, consec, failed_at>>
    /\ UNCHANGED avars

\* ------------------------------------------- configure_mcp_telemetry

\* auto_instrumentation.py line 84: BatchSpanProcessor(_global_exporter.exporter)
processor_target == "MCPJsonOTLPExporter"

configure_mcp_telemetry ==
    /\ processor = "none"
    /\ processor' = processor_target
    /\ last' = Event("configure", 0, "none", FALSE, FALSE, FALSE, FALSE, NoResponse)
    /\ UNCHANGED <<state, failures, last_failure_time, now, ticks, shutdown, calls, consec, failed_at>>
    /\ UNCHANGED avars

\* BatchSpanProcessor's worker hands a batch to the exporter it was given
PipelineExport(resp) ==
    /\ processor = "MCPJsonOTLPExporter"
    /\ last' = Event("pipeline", 0,
                     IF MCPJsonOTLPExporter_export(resp) = "SUCCESS" THEN "success" ELSE "failure",
                     FALSE, TRUE, FALSE, FALSE, resp)
    /\ UNCHANGED <<state, failures, last_failure_time, now, ticks, shutdown,
                   processor, calls, consec, failed_at>>
    /\ UNCHANGED avars

\* ------------------------------------------------------- token validation

\* the two validation runs that are compared with each other
RunIds == {1, 2}

\* Python strings are sequences of characters
Str_Bearer == <<"B", "e", "a", "r", "e", "r", " ">>
Str_Basic == <<"B", "a", "s", "i", "c", " ", "x">>
Str_read == <<"r", "e", "a", "d">>
Str_write == <<"w", "r", "i", "t", "e">>
Str_token == <<"t", "k", "1">>
NoStr == <<>>

\* ---- the introspection endpoint's answer
\* JSON values by type tag; v carries an integer, s a string
JAbsent == [t |-> "absent", v |-> 0, s |-> NoStr]
JInt(n) == [t |-> "int", v |-> n, s |-> NoStr]
JStr(x) == [t |-> "str", v |-> 0, s |-> x]
JList == [t |-> "list", v |-> 0, s |-> NoStr]

\* bool(x) of a decoded JSON value (None for an absent key)
Truthy(j) ==
    \/ j.t = "true"
    \/ j.t = "list"
    \/ j.t = "int" /\ j.v # 0
    \/ j.t = "str" /\ j.s # NoStr

Actives == {JAbsent, [JAbsent EXCEPT !.t = "true"], [JAbsent EXCEPT !.t = "false"],
            [JAbsent EXCEPT !.t = "null"], JStr(<<"n", "o">>)}
DefaultScope == JStr(Str_read \o <<" ">> \o Str_write)
ScopeValues == {DefaultScope, JAbsent, JStr(Str_read \o <<",">> \o Str_write), JList,
                JStr(Str_read)}
ExpValues == {JAbsent, JInt(500), JInt(0), JStr(<<"x">>)}
AudValues == {JAbsent, JStr(<<"s", "e", "l", "f">>)}

NoBody == [t |-> "none", active |-> JAbsent, scope |-> JAbsent, exp |-> JAbsent,
           aud |-> JAbsent]
ObjectBodies ==
    {[t |-> "object", active |-> a, scope |-> sc, exp |-> e, aud |-> d] :
        a \in Actives, sc \in ScopeValues, e \in ExpValues, d \in AudValues}
\* one field at a time departs from the usual answer
Bodies ==
    {[NoBody EXCEPT !.t = "not_json"], [NoBody EXCEPT !.t = "non_object"]}
    \cup {b \in ObjectBodies :
            Cardinality({f \in {"scope", "exp", "aud"} :
                           b[f] # (IF f = "scope" THEN DefaultScope ELSE JAbsent)}) <= 1}

IntroResponses ==
    {[kind |-> "status", code |-> c, body |-> b] : c \in {200, 204}, b \in Bodies}
    \cup {[kind |-> "status", code |-> 401, body |-> NoBody]}
    \cup {[kind |-> k, code |-> 0, body |-> NoBody] : k \in {"timeout", "conn_error"}}

\* ---- results
NoCtx == [user_id |-> "", scopes |-> <<>>, expires_at |-> 0]
ReturnNone == [kind |-> "None", ctx |-> NoCtx, code |-> 0, msg |-> ""]
Raised(what) == [kind |-> "raised", ctx |-> NoCtx, code |-> 0, msg |-> what]

\* ---- str methods
startswith(x, prefix) ==
    Len(x) >= Len(prefix) /\ SubSeq(x, 1, Len(prefix)) = prefix

RECURSIVE SplitFrom(_, _, _)
SplitFrom(x, sep, cur) ==
    IF x = <<>> THEN <<cur>>
    ELSE IF Head(x) = sep THEN <<cur>> \o SplitFrom(Tail(x), sep, <<>>)
    ELSE SplitFrom(Tail(x), sep, Append(cur, Head(x)))

\* x.split(sep): empty pieces are kept
str_split(x, sep) == SplitFrom(x, sep, <<>>)

NonEmpty(piece) == piece # <<>>

\* x.split(): split on whitespace, empty pieces dropped
str_split_ws(x) == SelectSeq(str_split(x, " "), NonEmpty)

RECURSIVE lstrip(_)
lstrip(x) == IF x # <<>> /\ Head(x) = " " THEN lstrip(Tail(x)) ELSE x

RECURSIVE rstrip(_)
rstrip(x) ==
    IF x # <<>> /\ x[Len(x)] = " " THEN rstrip(SubSeq(x, 1, Len(x) - 1)) ELSE x

str_strip(x) == rstrip(lstrip(x))

Contains(x, ch) == \E i \in 1..Len(x) : x[i] = ch

\* ---- OAuthTokenValidator

\* response.is_success: any 2xx
is_success(code) == code >= 200 /\ code < 300

\* validate_token, line 69: introspection.get("active", False)
validator_is_active(body) == Truthy(body.active)

\* validate_token without its try/except
validate_catches_none(exc) == FALSE

\* validate_token, lines 111-113: `except Exception`
validate_catches(exc) == exc = "Exception"

ValidateFailed == IF validate_catches("Exception") THEN ReturnNone ELSE Raised("Exception")

validate_token(resp, t) ==
    IF resp.kind # "status" THEN ValidateFailed
    ELSE IF ~is_success(resp.code) THEN ReturnNone
    ELSE IF resp.body.t # "object" THEN ValidateFailed
    ELSE IF ~validator_is_active(resp.body) THEN ReturnNone
    ELSE IF Truthy(resp.body.scope) /\ resp.body.scope.t # "str" THEN ValidateFailed
    ELSE IF Truthy(resp.body.exp) /\ resp.body.exp.t # "int" THEN ValidateFailed
    ELSE [kind |-> "ctx",
          ctx |-> [user_id |-> "user-1",
                   scopes |-> IF Truthy(resp.body.scope)
                              THEN str_split(resp.body.scope.s, " ") ELSE <<>>,
                   expires_at |-> IF Truthy(resp.body.exp)
                                  THEN resp.body.exp.v * 1000 ELSE t + 3600000],
          code |-> 0, msg |-> ""]

extract_bearer_token(auth_header) ==
    IF auth_header = NoStr \/ ~startswith(auth_header, Str_Bearer) THEN NoStr
    ELSE SubSeq(auth_header, Len(Str_Bearer) + 1, Len(auth_header))

\* any() in place of all()
has_required_scopes_any(ctx, required) ==
    \E i \in 1..Len(required) : \E j \in 1..Len(ctx.scopes) : ctx.scopes[j] = required[i]

\* has_required_scopes, line 140
has_required_scopes(ctx, required) ==
    \A i \in 1..Len(required) : \E j \in 1..Len(ctx.scopes) : ctx.scopes[j] = required[i]

\* ---- McpObsTokenVerifier (fastmcp_integration)

\* data.get("active", True): a missing flag counts as active
verifier_is_active_default_true(body) == body.active.t = "absent" \/ Truthy(body.active)

\* verify_token, line 79: data.get("active", False)
verifier_is_active(body) == Truthy(body.active)

\* _validate_resource with server_url "self"
_validate_resource(body) == Truthy(body.aud) /\ body.aud.s = <<"s", "e", "l", "f">>

verify_token(resp, validate_resource) ==
    IF resp.kind # "status" THEN ReturnNone
    ELSE IF resp.code # 200 THEN ReturnNone
    ELSE IF resp.body.t # "object" THEN ReturnNone
    ELSE IF ~verifier_is_active(resp.body) THEN ReturnNone
    ELSE IF validate_resource /\ ~_validate_resource(resp.body) THEN ReturnNone
    ELSE IF Truthy(resp.body.scope) /\ resp.body.scope.t # "str" THEN ReturnNone
    ELSE IF resp.body.exp.t = "str" THEN ReturnNone
    ELSE [kind |-> "AccessToken",
          ctx |-> [user_id |-> "unknown",
                   scopes |-> IF ~Truthy(resp.body.scope) THEN <<>>
                              ELSE IF Contains(resp.body.scope.s, ",")
                              THEN [i \in 1..Len(str_split(resp.body.scope.s, ",")) |->
                                        str_strip(str_split(resp.body.scope.s, ",")[i])]
                              ELSE str_split_ws(resp.body.scope.s),
                   expires_at |-> resp.body.exp.v],
          code |-> 0, msg |-> ""]

\* ---- requests

Str_token2 == <<"t", "k", "2">>

\* what an attribute or a map entry of the request holds: nothing, a string,
\* or a truthy value that is not a string (a dict, a list, a number)
VAbsent == [t |-> "absent", s |-> NoStr]
VStr(x) == [t |-> "str", s |-> x]
VOther == [t |-> "other", s |-> NoStr]

\* bool(v)
PyTruthy(v) == v.t = "other" \/ (v.t = "str" /\ v.s # NoStr)

\* Python's `a or b`
PyOr(a, b) == IF PyTruthy(a) THEN a ELSE b

\* the places the extractors look at.  A container slot ("headers",
\* "metadata", "connection.headers") is absent when the attribute is a map or
\* missing, and truthy when it holds something that is not a map; the slots
\* below it are the map's entries.  session and connection are objects that
\* exist when a slot below them is filled.
Slots == {"headers", "headers.authorization", "headers.Authorization",
          "headers.AUTHORIZATION",
          "metadata", "metadata.authorization", "metadata.Authorization",
          "metadata.auth", "params.authorization", "authorization",
          "session.authorization", "connection.headers",
          "connection.headers.authorization", "connection.headers.Authorization"}

SlotValues == {VStr(Str_Bearer \o Str_token), VStr(Str_Bearer \o Str_token2),
               VStr(Str_Basic), VStr(Str_Bearer), VOther}

\* a request: the tool name (params.name) and what each slot holds
NoRequest == [name |-> "", at |-> [s \in Slots |-> VAbsent]]

Request(n, s1, v1, s2, v2) ==
    [name |-> n,
     at |-> [s \in Slots |-> IF s = s1 THEN v1 ELSE IF s = s2 THEN v2 ELSE VAbsent]]

\* the requests the middleware is run on with every introspection answer
Requests ==
    {Request(n, "headers.authorization", h, "authorization", a) :
        n \in {"ping", "echo"},
        h \in {VAbsent, VStr(Str_Bearer \o Str_token), VStr(Str_Basic)},
        a \in {VAbsent, VStr(Str_Bearer \o Str_token)}}

\* every request with at most two slots filled
Shapes ==
    {Request("echo", s1, v1, s2, v2) :
        s1 \in Slots, v1 \in SlotValues \cup {VAbsent}, s2 \in Slots, v2 \in SlotValues}

\* ---- extraction results
NoToken == [kind |-> "none", s |-> NoStr]
Tok(x) == [kind |-> "token", s |-> x]
ExtractRaised == [kind |-> "raised", s |-> NoStr]

\* the next probe runs only when this one found nothing
OrElse(r1, r2) == IF r1.kind = "none" THEN r2 ELSE r1

\* `if auth_header: token = validator.extract_bearer_token(auth_header);
\*  if token: return token` -- str.startswith exists on strings only
bearer_of(v) ==
    IF ~PyTruthy(v) THEN NoToken
    ELSE IF v.t # "str" THEN ExtractRaised
    ELSE IF extract_bearer_token(v.s) = NoStr THEN NoToken
    ELSE Tok(extract_bearer_token(v.s))

\* `if m: auth_header = m.get('authorization') or m.get('Authorization')`
\* -- .get exists on maps only
map_get(req, m, lower, upper) ==
    IF PyTruthy(req.at[m]) THEN ExtractRaised
    ELSE [kind |-> "none", v |-> PyOr(req.at[lower], req.at[upper])]

\* oauth_middleware._extract_token_from_request, lines 183-217
_extract_token_from_request(req) ==
    LET h == map_get(req, "headers", "headers.authorization", "headers.Authorization")
        m == map_get(req, "metadata", "metadata.authorization", "metadata.Authorization")
    IN OrElse(IF h.kind = "raised" THEN h ELSE bearer_of(h.v),
       OrElse(IF m.kind = "raised" THEN m ELSE bearer_of(m.v),
       OrElse(bearer_of(req.at["params.authorization"]),
              bearer_of(req.at["authorization"]))))

\* `if v and v.startswith('Bearer '): return v[7:]` -- the token may be ""
bearer_prefix(v) ==
    IF ~PyTruthy(v) THEN NoToken
    ELSE IF v.t # "str" THEN ExtractRaised
    ELSE IF startswith(v.s, Str_Bearer)
    THEN Tok(SubSeq(v.s, Len(Str_Bearer) + 1, Len(v.s)))
    ELSE NoToken

\* `if v and isinstance(v, str) and v.startswith('Bearer '): return v[7:]`
bearer_prefix_str(v) == IF v.t = "str" THEN bearer_prefix(v) ELSE NoToken

\* StdioOAuthAdapter.extract_token, lines 63-80
Stdio_extract_token(req) ==
    LET m == map_get(req, "metadata", "metadata.authorization", "metadata.Authorization")
    IN OrElse(IF m.kind = "raised" THEN m ELSE bearer_prefix(m.v),
       OrElse(bearer_prefix_str(req.at["metadata.auth"]),
              bearer_prefix(req.at["authorization"])))

\* HTTPOAuthAdapter.extract_token, lines 130-137
HTTP_extract_token(req) ==
    LET h == map_get(req, "headers", "headers.authorization", "headers.Authorization")
    IN IF h.kind = "raised" THEN h ELSE bearer_prefix(h.v)

\* StreamableHTTPOAuthAdapter.extract_token, lines 202-222: `if token:`
\* passes an empty token on to the next probe
StreamableHTTP_extract_token(req) ==
    LET t == HTTP_extract_token(req)
        c == map_get(req, "connection.headers", "connection.headers.authorization",
                     "connection.headers.Authorization")
    IN IF t.kind = "raised" \/ (t.kind = "token" /\ t.s # NoStr) THEN t
       ELSE OrElse(bearer_prefix(req.at["session.authorization"]),
                   IF c.kind = "raised" THEN c ELSE bearer_prefix(c.v))

Extractors == {"stdio", "http", "streamable-http", "_extract_token_from_request"}

extract_token(extractor, req) ==
    CASE extractor = "stdio" -> Stdio_extract_token(req)
      [] extractor = "http" -> HTTP_extract_token(req)
      [] extractor = "streamable-http" -> StreamableHTTP_extract_token(req)
      [] OTHER -> _extract_token_from_request(req)

\* ---- with_oauth (oauth_middleware)

\* strings of the configuration, as the pieces the code takes them apart by
Slug_demo == <<"demo">>
Url_localhost == <<"http", ":", "//", "localhost", ":", "3000">>
Url_custom == <<"https", ":", "//", "auth.example.com">>
NoUrl == <<>>

\* OAuthConfig / TransportAdapterConfig: what the middleware runs under
Config(slug, url, scopes, skip) ==
    [server_slug |-> slug, platform_url |-> url, required_scopes |-> scopes,
     skip_validation_for |-> skip]

DefaultConfig == Config(Slug_demo, NoUrl, <<Str_read, Str_write>>, {"ping"})

Configs ==
    {Config(Slug_demo, NoUrl, sc, sk) :
        sc \in {<<>>, <<Str_read>>, <<Str_read, Str_write>>}, sk \in {{}, {"ping"}}}

MCPError(c, m) == [kind |-> "MCPError", ctx |-> NoCtx, code |-> c, msg |-> m]
HandlerCalled(ctx) == [kind |-> "handler", ctx |-> ctx, code |-> 0, msg |-> ""]

\* the message of the scope failure names two lists: "Insufficient scopes.
\* Required: <required_scopes>, Got: <auth_context.scopes>"
InsufficientScopes(required, got) ==
    [kind |-> "MCPError", ctx |-> NoCtx, code |-> -32603, msg |-> "insufficient_scopes",
     lists |-> [Required |-> required, Got |-> got]]

\* one POST and only one
introspection_posts_retry(resp) ==
    IF resp.kind # "status" \/ ~is_success(resp.code) THEN 2 ELSE 1

\* validate_token, lines 54-60: the POSTs one call sends
introspection_posts(resp) == 1

Posts(resp) == [i \in 1..introspection_posts(resp) |-> "post"]

\* no tool is exempt
skip_validation_never(cfg, tool_name) == FALSE

\* with_oauth.wrapper, line 76: `skip_validation_for and tool_name in
\* skip_validation_for`
skip_validation(cfg, tool_name) ==
    cfg.skip_validation_for # {} /\ tool_name \in cfg.skip_validation_for

\* `if not token` that never holds
token_missing_never(tk) == FALSE

\* with_oauth.wrapper, line 90: `if not token`
token_missing(tk) == tk.kind = "none"

\* with_oauth.wrapper, lines 71-114: what the caller gets (out), the calls
\* made on the way in their order (calls) and the token handed to the
\* validator
with_oauth_steps(cfg, req, resp, t) ==
    IF skip_validation(cfg, req.name)
    THEN [out |-> HandlerCalled([user_id |-> "anonymous", scopes |-> <<>>,
                                 expires_at |-> t + 3600000]),
          calls |-> <<"handler">>, token |-> NoToken]
    ELSE LET token == _extract_token_from_request(req) IN
         IF token.kind = "raised"
         THEN [out |-> Raised("AttributeError"), calls |-> <<"extract">>, token |-> token]
         ELSE IF token_missing(token)
         THEN [out |-> MCPError(-32602, "authorization_required"),
               calls |-> <<"extract">>, token |-> token]
         ELSE LET v == validate_token(resp, t)
                  c == <<"extract", "validate">> \o Posts(resp)
              IN
              IF v.kind = "raised" THEN [out |-> v, calls |-> c, token |-> token]
              ELSE IF v.kind = "None"
              THEN [out |-> MCPError(-32602, "invalid_or_expired"), calls |-> c,
                    token |-> token]
              ELSE IF cfg.required_scopes = <<>>
              THEN [out |-> HandlerCalled(v.ctx), calls |-> c \o <<"handler">>,
                    token |-> token]
              ELSE IF ~has_required_scopes(v.ctx, cfg.required_scopes)
              THEN [out |-> InsufficientScopes(cfg.required_scopes, v.ctx.scopes),
                    calls |-> c \o <<"scopes">>, token |-> token]
              ELSE [out |-> HandlerCalled(v.ctx), calls |-> c \o <<"scopes", "handler">>,
                    token |-> token]

with_oauth(cfg, req, resp, t) == with_oauth_steps(cfg, req, resp, t).out

\* ---- challenge headers

Str_protected == <<"/.well-known/oauth-protected-resource">>
Str_authserver == <<"/.well-known/oauth-authorization-server">>
Str_scheme == <<"Bearer resource_metadata=">>
Quote == <<"\"">>

HasPiece(x, p) == \E i \in 1..Len(x) : x[i] = p

\* x.split(':')[-1]
RECURSIVE AfterLast(_, _)
AfterLast(x, sep) ==
    IF ~HasPiece(x, sep) THEN x
    ELSE AfterLast(Tail(x), sep)

\* validate_token, lines 38-41: the base URL introspection goes to
authority(cfg) ==
    IF cfg.platform_url # NoUrl THEN cfg.platform_url
    ELSE <<"https", ":", "//">> \o cfg.server_slug \o <<".mcp-obs.com">>

NoHeaders == <<>>

\* oauth_middleware.create_oauth_challenge_headers, lines 236-241
create_oauth_challenge_headers(server_slug) ==
    LET protocol == IF HasPiece(server_slug, "localhost") THEN <<"http">> ELSE <<"https">>
        base_url == IF HasPiece(server_slug, "localhost") THEN server_slug
                    ELSE server_slug \o <<".mcp-obs.com">>
    IN Str_scheme \o Quote \o protocol \o <<":", "//">> \o base_url \o Str_protected \o Quote

\* FastAPIMiddleware / FlaskMiddleware._send_unauthorized_response,
\* lines 306-320 and 424-438
_send_unauthorized_response(cfg) ==
    LET url == cfg.platform_url
        slug == cfg.server_slug
        port == IF HasPiece(url, ":") THEN AfterLast(url, ":") ELSE <<"3000">>
        protocol == IF url # NoUrl /\ Head(url) = "https" THEN <<"https">> ELSE <<"http">>
        auth_server_url ==
            IF url # NoUrl /\ slug # NoStr
            THEN IF HasPiece(url, "localhost")
                 THEN protocol \o <<":", "//">> \o slug \o <<".localhost", ":">> \o port
                 ELSE <<"https", ":", "//">> \o slug \o <<".mcp-obs.com">>
            ELSE IF slug # NoStr THEN <<"https", ":", "//">> \o slug \o <<".mcp-obs.com">>
            ELSE IF url # NoUrl THEN url
            ELSE <<"https", ":", "//", "mcp-obs.com">>
    IN Str_scheme \o auth_server_url \o Str_authserver

\* ---- transport adapters

Adapters == {"none", "stdio", "http", "streamable-http"}

IsException(out) == out.kind \in {"MCPError", "raised"}

\* the `except Exception as error` of each adapter's with_oauth wrapper: the
\* headers the re-raised error carries
adapter_error_headers(adapter, cfg, out) ==
    IF adapter = "http" /\ IsException(out)
    THEN create_oauth_challenge_headers(cfg.server_slug)
    ELSE NoHeaders

\* ---- runs

\* a run not made yet carries no call and no outcome
IdleRun == [pc |-> "idle"]

\* the second run repeats the first run's call; only the answer may differ
SameCall(r, op, adapter, cfg, req, vr) ==
    r = 1 \/ (runs[1].pc = "done" /\ runs[1].op = op /\ runs[1].adapter = adapter
                /\ runs[1].cfg = cfg /\ runs[1].req = req /\ runs[1].vr = vr)

Finish(r, op, adapter, cfg, req, vr, resp, out, made, token, headers) ==
    /\ runs[r].pc = "idle"
    /\ SameCall(r, op, adapter, cfg, req, vr)
    /\ runs' = [runs EXCEPT ![r] =
                  [pc |-> "done", op |-> op, adapter |-> adapter, cfg |-> cfg,
                   req |-> req, vr |-> vr, resp |-> resp, out |-> out,
                   calls |-> made, token |-> token, headers |-> headers]]
    /\ UNCHANGED bvars
    /\ UNCHANGED wvars

NoIntroResponse == [kind |-> "none", code |-> 0, body |-> NoBody]

ValidateToken(r, resp) ==
    Finish(r, "validate_token", "none", DefaultConfig, NoRequest, FALSE, resp,
           validate_token(resp, now), <<"validate">> \o Posts(resp), NoToken, NoHeaders)

VerifyToken(r, vr, resp) ==
    Finish(r, "verify_token", "none", DefaultConfig, NoRequest, vr, resp,
           verify_token(resp, vr), <<"verify", "post">>, NoToken, NoHeaders)

\* a request handled by a handler wrapped with with_oauth, directly
\* (adapter "none") or through an adapter's with_oauth
Authenticate(r, adapter, cfg, req, resp) ==
    LET s == with_oauth_steps(cfg, req, resp, now) IN
    Finish(r, "with_oauth", adapter, cfg, req, FALSE, resp, s.out, s.calls, s.token,
           adapter_error_headers(adapter, cfg, s.out))

\* an extractor applied to a request
Extract(r, extractor, req) ==
    Finish(r, "extract_token", extractor, DefaultConfig, req, FALSE, NoIntroResponse,
           extract_token(extractor, req), <<"extract">>, NoToken, NoHeaders)

\* ---- the module-level validator

\* oauth_middleware line 37: _global_validator = None, written as the config
\* with no slug, which no adapter is given
NoValidator == Config(NoStr, NoUrl, <<>>, {})

Slug_other == <<"other">>
OtherConfig == Config(Slug_other, Url_custom, <<>>, {})
WiringConfigs == {DefaultConfig, OtherConfig}

\* requests with and without a bearer token, for an exempt and for another tool
WiringRequests == {req \in Requests : req.at["authorization"] = VAbsent}

AdapterKinds == {"stdio", "http", "streamable-http"}
DecoratorKinds == {"with_oauth_stdio", "with_oauth_http"}

\* configure_oauth_validator, lines 40-43: the global is replaced by a
\* validator for config, whatever it held
configure_oauth_validator(v, config) == config

\* with_oauth_stdio / with_oauth_http, lines 131-132 and 156-157
configure_if_none(v, config) ==
    IF v = NoValidator THEN configure_oauth_validator(v, config) ELSE v

Built(kind, cfg) ==
    /\ [kind |-> kind, cfg |-> cfg] \in objects \/ Cardinality(objects) < MaxObjects
    /\ objects' = objects \cup {[kind |-> kind, cfg |-> cfg]}

\* StdioOAuthAdapter / HTTPOAuthAdapter / StreamableHTTPOAuthAdapter __init__
Construct(kind, cfg) ==
    /\ Built(kind, cfg)
    /\ _global_validator' = configure_oauth_validator(_global_validator, cfg)
    /\ UNCHANGED <<bvars, runs>>

\* with_oauth_stdio(config) / with_oauth_http(config) returns its decorator
Decorate(kind, cfg) ==
    /\ Built(kind, cfg)
    /\ _global_validator' = configure_if_none(_global_validator, cfg)
    /\ UNCHANGED <<bvars, runs>>

\* the application calls configure_oauth_validator itself
Configure(cfg) ==
    /\ _global_validator' = configure_oauth_validator(_global_validator, cfg)
    /\ UNCHANGED <<bvars, runs, objects>>

\* a request reaches a handler wrapped by obj: the adapter's with_oauth or
\* the decorator passes its own required_scopes and skip_validation_for to
\* with_oauth, whose wrapper takes the validator from get_oauth_validator()
\* at call time (line 71)
CallWrapped(r, obj, req, resp) ==
    /\ runs[r].pc = "idle"
    /\ LET s == with_oauth_steps(obj.cfg, req, resp, now)
           adapter == IF obj.kind \in AdapterKinds THEN obj.kind ELSE "none"
           out == IF _global_validator = NoValidator THEN Raised("RuntimeError") ELSE s.out
       IN runs' = [runs EXCEPT ![r] =
                     [pc |-> "done", op |-> "wrapped_call", adapter |-> obj.kind,
                      cfg |-> obj.cfg, req |-> req, vr |-> FALSE, resp |-> resp,
                      out |-> out,
                      calls |-> IF _global_validator = NoValidator THEN <<>> ELSE s.calls,
                      token |-> s.token,
                      headers |-> adapter_error_headers(adapter, obj.cfg, out),
                      validator |-> _global_validator]]
    /\ UNCHANGED bvars
    /\ UNCHANGED wvars

\* oauth_middleware.is_authenticated, lines 255-259: `token is not None`,
\* and False when the extraction raises; the validator is not called
is_authenticated(req) ==
    LET token == _extract_token_from_request(req) IN
    [kind |-> IF token.kind = "token" THEN "True" ELSE "False",
     ctx |-> NoCtx, code |-> 0, msg |-> ""]

\* a handler asks whether the request is authenticated; resp is what the
\* introspection endpoint would answer for the request's token
IsAuthenticated(r, req, resp) ==
    Finish(r, "is_authenticated", "none", DefaultConfig, req, FALSE, resp,
           is_authenticated(req), <<"extract">>, _extract_token_from_request(req),
           NoHeaders)

\* _is_public_endpoint, lines 286-296 and 405-415: the path starts with one
\* of the public prefixes; a path is its pieces, the first one the prefix
public_paths == {"/health", "/status", "/.well-known/", "/favicon.ico", "/register",
                 "/token", "/authorize"}

_is_public_endpoint(path) == path # <<>> /\ Head(path) \in public_paths

Paths == {<<"/health">>, <<"/.well-known/", "oauth-protected-resource">>, <<"/mcp">>}

\* requests as a web framework hands them over: request.url.path, and
\* request.headers always a map
MiddlewareRequests ==
    {[name |-> p,
      at |-> [s \in Slots |-> IF s = "headers.authorization" THEN h ELSE VAbsent]] :
        p \in Paths,
        h \in {VAbsent, VStr(Str_Bearer \o Str_token), VStr(Str_Basic), VStr(Str_Bearer)}}

Unauthorized(message) == [kind |-> "401", ctx |-> NoCtx, code |-> -32000, msg |-> message]
CallNext(ctx) == [kind |-> "call_next", ctx |-> ctx, code |-> 0, msg |-> ""]

\* FastAPIMiddleware.__call__, lines 239-271, and the before_request hook of
\* FlaskMiddleware.create_middleware, lines 358-388
framework_middleware(cfg, req, resp, t) ==
    IF _is_public_endpoint(req.name) THEN CallNext(NoCtx)
    ELSE LET token == bearer_prefix(PyOr(req.at["headers.authorization"],
                                         req.at["headers.Authorization"]))
         IN IF token.kind = "raised" THEN Raised("AttributeError")
            ELSE IF token.kind = "none" \/ token.s = NoStr
            THEN Unauthorized("Authentication required")
            ELSE LET v == validate_token(resp, t) IN
                 IF v.kind = "raised" THEN Unauthorized("Token validation failed")
                 ELSE IF v.kind = "None" THEN Unauthorized("Invalid or expired token")
                 ELSE CallNext(v.ctx)

Frameworks == {"FastAPIMiddleware", "FlaskMiddleware"}

\* a request passes through a framework middleware
Middleware(r, framework, cfg, req, resp) ==
    LET out == framework_middleware(cfg, req, resp, now) IN
    Finish(r, "middleware", framework, cfg, req, FALSE, resp, out, <<>>, NoToken,
           IF out.kind = "401" THEN _send_unauthorized_response(cfg) ELSE NoHeaders)

ChallengePaths == {"create_oauth_challenge_headers", "HTTPOAuthAdapter",
                   "FastAPIMiddleware", "FlaskMiddleware"}

challenge_value(path, cfg) ==
    IF path \in {"FastAPIMiddleware", "FlaskMiddleware"}
    THEN _send_unauthorized_response(cfg)
    ELSE create_oauth_challenge_headers(cfg.server_slug)

\* a code path answers with an authentication challenge
Challenge(r, path, cfg) ==
    Finish(r, "challenge", path, cfg, NoRequest, FALSE, NoIntroResponse,
           MCPError(-32602, "authorization_required"), <<>>, NoToken,
           challenge_value(path, cfg))


Init ==
    /\ state = "CLOSED"
    /\ failures = 0
    /\ last_failure_time = 0
    /\ now = StartTime
    /\ ticks = 0
    /\ shutdown = FALSE
    /\ processor = "none"
    /\ calls = [c \in Callers |-> Idle]
    /\ consec = 0
    /\ failed_at = 0
    /\ last = [op |-> "init", c |-> 0, result |-> "none", raised |-> FALSE,
               invoked |-> FALSE, via_breaker |-> FALSE, trial |-> FALSE,
               resp |-> NoResponse,
               pre |-> [state |-> "CLOSED", failures |-> 0, last_failure_time |-> 0],
               at |-> StartTime, sd |-> FALSE]
    /\ runs = [r \in RunIds |-> IdleRun]
    /\ _global_validator = NoValidator
    /\ objects = {}

Next ==
    \/ \E c \in Callers, spans \in Batches : ExportCall(c, spans)
    \/ \E c \in Callers, resp \in SinkResponses : SinkRespond(c, resp)
    \/ \E c \in Callers : Cancel(c)
    \/ \E dt \in TimeSteps : Tick(dt)
    \/ Shutdown
    \/ \E which \in {"get_state", "get_stats"} : Observe(which)
    \/ configure_mcp_telemetry
    \/ \E resp \in SinkResponses : PipelineExport(resp)

Spec == Init /\ [][Next]_vars

\* export calls made one after another: a call starts only when none is
\* in flight
NoneInFlight == \A d \in Callers : calls[d].pc = "idle"

SeqNext ==
    \/ \E c \in Callers, spans \in Batches : NoneInFlight /\ ExportCall(c, spans)
    \/ \E c \in Callers, resp \in SinkResponses : SinkRespond(c, resp)
    \/ \E c \in Callers : Cancel(c)
    \/ \E dt \in TimeSteps : Tick(dt)
    \/ Shutdown

SeqSpec == Init /\ [][SeqNext]_vars

\* recovery: the sink may fail during the first clock advances and answers
\* 200 from then on; every export call carries spans, none is cancelled and
\* the exporter is not shut down.  Once the sink is up the clock advances by
\* reset_timeout at a time, so more than reset_timeout passes after the last
\* failure.
SinkDownTicks == MaxTicks - 2

SinkUp == ticks >= SinkDownTicks

LiveNext ==
    \/ \E c \in Callers : ExportCall(c, "spans")
    \/ \E c \in Callers, resp \in SinkResponses :
          /\ SinkUp => MCPJsonOTLPExporter_export(resp) = "SUCCESS"
          /\ SinkRespond(c, resp)
    \/ \E dt \in TimeSteps :
          /\ SinkUp => dt = reset_timeout
          /\ Tick(dt)

\* export keeps being called, the executor's POST returns (requests.post
\* has a timeout) and time passes
LiveSpec ==
    /\ Init
    /\ [][LiveNext]_vars
    /\ WF_vars(\E c \in Callers : ExportCall(c, "spans"))
    /\ WF_vars(\E c \in Callers, resp \in SinkResponses :
                  MCPJsonOTLPExporter_export(resp) = "SUCCESS" /\ SinkRespond(c, resp))
    /\ WF_vars(Tick(reset_timeout))

\* an introspection answer that validates, and one that does not
GoodResponse ==
    [kind |-> "status", code |-> 200,
     body |-> [NoBody EXCEPT !.t = "object", !.active = [JAbsent EXCEPT !.t = "true"],
                             !.scope = DefaultScope]]

ShapeResponses ==
    {GoodResponse, [GoodResponse EXCEPT !.body.active = [JAbsent EXCEPT !.t = "false"]]}

ChallengeConfigs ==
    {Config(Slug_demo, url, <<>>, {}) : url \in {NoUrl, Url_localhost, Url_custom}}

\* one call: a validation, a wrapped handler's request, an extraction or a
\* challenge, with every answer the introspection endpoint can give
AuthNext ==
    /\ runs[1].pc = "idle"
    /\ \/ \E resp \in IntroResponses : ValidateToken(1, resp)
       \/ \E vr \in BOOLEAN, resp \in IntroResponses : VerifyToken(1, vr, resp)
       \/ \E adapter \in Adapters, cfg \in Configs, req \in Requests, resp \in IntroResponses :
              Authenticate(1, adapter, cfg, req, resp)
       \/ \E adapter \in Adapters, req \in Shapes, resp \in ShapeResponses :
              Authenticate(1, adapter, DefaultConfig, req, resp)
       \/ \E extractor \in Extractors, req \in Shapes : Extract(1, extractor, req)
       \/ \E path \in ChallengePaths, cfg \in ChallengeConfigs : Challenge(1, path, cfg)
       \/ \E req \in Shapes, resp \in ShapeResponses : IsAuthenticated(1, req, resp)
       \/ \E framework \in Frameworks, cfg \in Configs, req \in MiddlewareRequests,
             resp \in IntroResponses : Middleware(1, framework, cfg, req, resp)

AuthSpec == Init /\ [][AuthNext]_vars

\* the same call made twice, the endpoint answering each independently
PairNext ==
    \/ \E r \in RunIds, resp \in IntroResponses : ValidateToken(r, resp)
    \/ \E r \in RunIds, req \in Requests, resp \in IntroResponses :
           Authenticate(r, "none", DefaultConfig, req, resp)

PairSpec == Init /\ [][PairNext]_vars

\* adapters and decorators are constructed and the module-level validator
\* is configured in any order; then a handler wrapped by one of the objects
\* gets a request
WiringNext ==
    /\ runs[1].pc = "idle"
    /\ \/ \E kind \in AdapterKinds, cfg \in WiringConfigs : Construct(kind, cfg)
       \/ \E kind \in DecoratorKinds, cfg \in WiringConfigs : Decorate(kind, cfg)
       \/ \E cfg \in WiringConfigs : Configure(cfg)
       \/ \E obj \in objects, req \in WiringRequests, resp \in ShapeResponses :
              CallWrapped(1, obj, req, resp)

WiringSpec == Init /\ [][WiringNext]_vars

\* ----------------------------------------------------------------- claims

Unexpired(ev) ==
    ev.pre.state = "OPEN" /\ ev.at - ev.pre.last_failure_time <= reset_timeout

ExecuteCalled(ev) == ev.op = "export" /\ ev.result \notin {"empty", "shut_down"}

\* C1: an execute call made while the state is OPEN and
\* now - last_failure_time <= reset_timeout fails with the circuit-open
\* error, and the guarded operation is not invoked.
C1_OpenRejects ==
    (ExecuteCalled(last) /\ Unexpired(last))
        => /\ last.result = "circuit_open"
           /\ ~last.invoked
           /\ calls[last.c].pc = "idle"
           /\ Breaker = last.pre

\* an execute call arrives exactly reset_timeout after the last failure
C1_Witness ==
    /\ ExecuteCalled(last)
    /\ last.pre.state = "OPEN"
    /\ last.at - last.pre.last_failure_time = reset_timeout
    /\ last.result = "circuit_open"

\* C2: with sequential calls the breaker goes from CLOSED to OPEN exactly
\* when the consecutive failures reach failure_threshold, recording the time
\* of that failure; a success resets the counter and leaves it CLOSED.
C2_OpensAtThreshold ==
    /\ state = "CLOSED" => consec < failure_threshold /\ failures = consec
    /\ (last.op = "respond" /\ last.result = "failure" /\ last.pre.state = "CLOSED")
         => /\ (state = "OPEN") <=> (consec = failure_threshold)
            /\ state \in {"OPEN", "CLOSED"}
            /\ failures = last.pre.failures + 1
            /\ state = "OPEN" => last_failure_time = now
    /\ (last.op = "respond" /\ last.result = "success")
         => failures = 0 /\ state = "CLOSED" /\ consec = 0

\* the failure that reaches the threshold has just opened the breaker
C2_Witness ==
    /\ last.op = "respond" /\ last.result = "failure"
    /\ last.pre.state = "CLOSED"
    /\ state = "OPEN"
    /\ consec = failure_threshold

\* C3: while the HALF_OPEN trial call is in flight no other execute call is
\* admitted.
C3_SingleTrial ==
    \A c \in Callers : calls[c].pc = "inflight" => ~calls[c].during_trial

\* C4: the HALF_OPEN trial's outcome decides the next state: success gives
\* CLOSED with failures 0, failure gives OPEN with last_failure_time the time
\* of that failure.  Stated for the answers whose reading is not in doubt: a
\* 200, a non-2xx status, a timeout or a transport error.
C4_TrialDecides ==
    (last.op = "respond" /\ last.trial /\ posted(last.resp)
       /\ (last.resp.kind = "status" => last.resp.code \in {200, 500}))
        => IF last.result = "success"
           THEN state = "CLOSED" /\ failures = 0
           ELSE state = "OPEN" /\ last_failure_time = now

\* C5: export returns normally whether the sink succeeds, answers with a
\* failure status, throws or times out, or the breaker rejects the call.
C5_ExportNeverRaises ==
    last.op \in {"export", "respond"} => ~last.raised

\* the sink threw while the breaker had failures on record
C5_Witness ==
    /\ last.op = "respond"
    /\ last.resp.kind = "conn_error"
    /\ last.pre.failures > 0
    /\ ~last.raised

\* C6: every request the configured pipeline sends to the sink goes through
\* the breaker, so none is sent while it is OPEN and unexpired.
C6_PipelineThroughBreaker ==
    last.invoked => last.via_breaker /\ ~Unexpired(last)

\* C7: one export call makes at most one attempt: none when the batch is
\* empty, the exporter is shut down or the breaker rejects, else exactly one,
\* and a failed attempt is not retried.
C7_OneAttempt ==
    /\ last.op = "export"
         => /\ (last.result \in {"empty", "shut_down", "circuit_open"}) => ~last.invoked
            /\ last.sd => last.result \in {"empty", "shut_down"} /\ ~last.invoked
            /\ last.result = "empty" => ~last.invoked
            /\ last.result = "admitted" => last.invoked /\ calls[last.c].pc = "inflight"
            /\ last.result \in {"empty", "shut_down", "circuit_open", "admitted"}
    /\ last.op \in {"respond", "cancel"}
         => ~last.invoked /\ calls[last.c].pc = "idle"

\* a call made after shutdown made no attempt
C7_Witness ==
    /\ last.op = "export"
    /\ last.sd
    /\ last.result = "shut_down"
    /\ ~last.invoked

Is2xx(resp) == resp.kind = "status" /\ resp.code >= 200 /\ resp.code < 300

\* C8: an admitted attempt whose response is non-2xx or a transport error
\* adds one to the failure counter; a 2xx response resets it to 0.
C8_StatusAccounting ==
    (last.op = "respond" /\ posted(last.resp))
        => IF Is2xx(last.resp)
           THEN failures = 0 /\ last.result = "success"
           ELSE failures = last.pre.failures + 1 /\ last.result = "failure"

Done(r) == runs[r].pc = "done"

Inactive(resp) ==
    resp.kind = "status" /\ resp.body.t = "object" /\ resp.body.active.t \in {"false", "absent"}

\* C9: no validation path returns an identity when the introspection answer
\* has active=false or no active field: the result is None and no
\* AuthContext or AccessToken is built.
C9_InactiveNeverValid ==
    \A r \in RunIds :
        (Done(r) /\ runs[r].op \in {"validate_token", "verify_token"} /\ Inactive(runs[r].resp))
            => runs[r].out = ReturnNone

\* a 200 answer without an active field, everything else in order
C9_Witness ==
    /\ Done(1)
    /\ runs[1].op = "verify_token"
    /\ runs[1].resp.code = 200
    /\ runs[1].resp.body.t = "object"
    /\ runs[1].resp.body.active = JAbsent
    /\ runs[1].resp.body.scope = DefaultScope
    /\ runs[1].out = ReturnNone

Malformed(body) ==
    \/ body.t \in {"not_json", "non_object"}
    \/ body.t = "object" /\ (body.scope.t = "list" \/ body.exp.t = "str")

InvalidCause(resp) ==
    \/ resp.kind \in {"timeout", "conn_error"}
    \/ resp.kind = "status" /\ ~(resp.code >= 200 /\ resp.code < 300)
    \/ resp.kind = "status" /\ Malformed(resp.body)
    \/ resp.kind = "status" /\ resp.body.t = "object" /\ resp.body.active.t = "false"

\* C10: two runs of the same call that differ only in why the token is
\* invalid (status, timeout or transport error, malformed body,
\* active=false) hand their caller the same thing and raise nothing out of
\* validate_token.
C10_InvalidIndistinguishable ==
    (Done(1) /\ Done(2) /\ InvalidCause(runs[1].resp) /\ InvalidCause(runs[2].resp))
        => /\ runs[1].out = runs[2].out
           /\ runs[1].out.kind # "raised"
           /\ runs[1].op = "validate_token" => runs[1].out = ReturnNone

\* a timed-out introspection and an active=false answer, same request
C10_Witness ==
    /\ Done(1) /\ Done(2)
    /\ runs[1].op = "with_oauth"
    /\ runs[1].req.name = "echo"
    /\ _extract_token_from_request(runs[1].req) = Tok(Str_token)
    /\ runs[1].resp.kind = "timeout"
    /\ runs[2].resp.kind = "status" /\ runs[2].resp.code = 200
    /\ runs[2].resp.body.active.t = "false"
    /\ runs[2].out = MCPError(-32602, "invalid_or_expired")

Count(seq, x) == Cardinality({i \in 1..Len(seq) : seq[i] = x})

\* C11: a validation, and a wrapped handler's call that reached the
\* validator with a token, sends exactly one introspection request, whatever
\* the answer and whatever an earlier call with the same token was told; so
\* the same token is accepted on a call answered active and rejected on the
\* next call answered inactive.
C11_OneFreshIntrospection ==
    /\ \A r \in RunIds :
         (Done(r) /\ (runs[r].op = "validate_token"
                        \/ (runs[r].op = "with_oauth" /\ runs[r].token.kind = "token")))
            => Count(runs[r].calls, "post") = 1
    /\ (Done(1) /\ Done(2) /\ runs[1].op = "with_oauth" /\ runs[1].token.kind = "token"
          /\ runs[1].resp = GoodResponse /\ Inactive(runs[2].resp))
         => /\ runs[1].out.kind = "handler"
            /\ runs[2].out = MCPError(-32602, "invalid_or_expired")

\* the token is accepted, then the endpoint answers active=false for it
C11_Witness ==
    /\ Done(1) /\ Done(2)
    /\ runs[1].op = "with_oauth"
    /\ runs[1].token = Tok(Str_token)
    /\ runs[2].token = Tok(Str_token)
    /\ runs[1].resp = GoodResponse
    /\ runs[1].out.kind = "handler"
    /\ runs[2].resp.code = 200 /\ runs[2].resp.body.active.t = "false"
    /\ runs[2].out = MCPError(-32602, "invalid_or_expired")
    /\ Count(runs[1].calls, "post") = 1 /\ Count(runs[2].calls, "post") = 1

AnonymousContext(t) == [user_id |-> "anonymous", scopes |-> <<>>, expires_at |-> t + 3600000]

\* C12: a request for a tool in skip_validation_for gets the handler called
\* with the anonymous context and nothing else is called -- no extraction, no
\* validation, no introspection request -- whatever the request carries and
\* whatever scopes are required; it never ends in an error.
C12_ExemptIsAnonymous ==
    (Done(1) /\ runs[1].op = "with_oauth"
       /\ runs[1].req.name \in runs[1].cfg.skip_validation_for)
        => /\ runs[1].out = HandlerCalled(AnonymousContext(now))
           /\ runs[1].calls = <<"handler">>
           /\ runs[1].headers = NoHeaders

\* an exempt tool called with a non-Bearer header while two scopes are
\* required and the introspection endpoint is down
C12_Witness ==
    /\ Done(1)
    /\ runs[1].op = "with_oauth"
    /\ runs[1].req.name = "ping"
    /\ runs[1].req.at["headers.authorization"] = VStr(Str_Basic)
    /\ runs[1].cfg.required_scopes = <<Str_read, Str_write>>
    /\ runs[1].cfg.skip_validation_for = {"ping"}
    /\ runs[1].resp.kind = "conn_error"
    /\ runs[1].out.kind = "handler"
    /\ runs[1].out.ctx.user_id = "anonymous"

\* the entries with_oauth's extraction reads
ProbedSlots == {"headers.authorization", "headers.Authorization",
                "metadata.authorization", "metadata.Authorization",
                "params.authorization", "authorization"}

IsBearerValue(v) ==
    v.t = "str" /\ startswith(v.s, Str_Bearer) /\ Len(v.s) > Len(Str_Bearer)

\* every slot is absent or a string, the containers are maps, and no entry
\* read by the extraction is "Bearer <token>"
NoBearerAnywhere(req) ==
    /\ \A s \in Slots : req.at[s].t \in {"absent", "str"}
    /\ \A s \in {"headers", "metadata", "connection.headers"} : req.at[s] = VAbsent
    /\ \A s \in ProbedSlots : ~IsBearerValue(req.at[s])

Range(seq) == {seq[i] : i \in 1..Len(seq)}

NonExempt(r) ==
    Done(r) /\ runs[r].op = "with_oauth"
      /\ ~(runs[r].req.name \in runs[r].cfg.skip_validation_for)

\* C14: for a tool that is not exempt the handler is called at most once,
\* and only as the last of: token extracted, validator answered with a
\* context, required scopes all granted; it is handed that context.  When
\* the validator answers None the request fails with the invalid-token error
\* and the handler is not called.
C14_HandlerOnlyAfterChecks ==
    NonExempt(1) =>
        /\ Count(runs[1].calls, "handler") = (IF runs[1].out.kind = "handler" THEN 1 ELSE 0)
        /\ runs[1].out.kind = "handler" =>
             /\ runs[1].token.kind = "token"
             /\ validate_token(runs[1].resp, now).kind = "ctx"
             /\ runs[1].out.ctx = validate_token(runs[1].resp, now).ctx
             /\ Range(runs[1].cfg.required_scopes) \subseteq Range(runs[1].out.ctx.scopes)
             /\ runs[1].calls =
                  (IF runs[1].cfg.required_scopes = <<>>
                   THEN <<"extract", "validate", "post", "handler">>
                   ELSE <<"extract", "validate", "post", "scopes", "handler">>)
        /\ (runs[1].token.kind = "token" /\ validate_token(runs[1].resp, now) = ReturnNone) =>
             /\ runs[1].out = MCPError(-32602, "invalid_or_expired")
             /\ runs[1].calls = <<"extract", "validate", "post">>

\* a token that grants both required scopes reaches the handler
C14_Witness ==
    /\ NonExempt(1)
    /\ runs[1].cfg.required_scopes = <<Str_read, Str_write>>
    /\ runs[1].token = Tok(Str_token)
    /\ runs[1].resp = GoodResponse
    /\ runs[1].out.kind = "handler"
    /\ runs[1].out.ctx.scopes = <<Str_read, Str_write>>
    /\ runs[1].calls = <<"extract", "validate", "post", "scopes", "handler">>

\* required minus granted, in the order of required
Missing(required, granted) ==
    SelectSeq(required, LAMBDA s : s \notin Range(granted))

\* the scope lists a failure carries
ScopeListsOf(out) == {out.lists[k] : k \in DOMAIN out.lists}

\* C15: with required scopes configured the handler is reached only when the
\* granted scopes include every required one; otherwise the request fails
\* with the insufficient-scope error, and that error carries exactly the list
\* of missing scopes, required minus granted.
C15_MissingScopesCarried ==
    (NonExempt(1) /\ runs[1].cfg.required_scopes # <<>>
       /\ validate_token(runs[1].resp, now).kind = "ctx" /\ runs[1].token.kind = "token")
        => LET required == runs[1].cfg.required_scopes
               granted == validate_token(runs[1].resp, now).ctx.scopes
           IN IF Range(required) \subseteq Range(granted)
              THEN runs[1].out.kind = "handler"
              ELSE /\ runs[1].out.kind = "MCPError"
                   /\ runs[1].out.code = -32603
                   /\ ScopeListsOf(runs[1].out) = {Missing(required, granted)}

AuthRequired == MCPError(-32602, "authorization_required")
InvalidToken == MCPError(-32602, "invalid_or_expired")

\* C16: through the HTTP adapter and through the StreamableHTTP adapter,
\* every authorization-required or invalid-token failure leaves the adapter's
\* with_oauth wrapper carrying a WWW-Authenticate challenge header.
C16_HttpFailuresCarryChallenge ==
    (Done(1) /\ runs[1].op = "with_oauth"
       /\ runs[1].adapter \in {"http", "streamable-http"}
       /\ runs[1].out \in {AuthRequired, InvalidToken})
        => runs[1].headers # NoHeaders

\* Bearer resource_metadata="<authority>/.well-known/oauth-protected-resource"
ExpectedChallenge(cfg) ==
    Str_scheme \o Quote \o authority(cfg) \o Str_protected \o Quote

\* C17: wherever a challenge header is produced, its value is
\* Bearer resource_metadata="<authority>/.well-known/oauth-protected-resource"
\* with <authority> the base URL validate_token sends introspection to.
C17_ChallengeNamesAuthority ==
    (Done(1) /\ runs[1].headers # NoHeaders)
        => runs[1].headers = ExpectedChallenge(runs[1].cfg)

CommaScope == JStr(Str_read \o <<",">> \o Str_write)

\* C18: a scope string with a comma is split on commas, one without on
\* whitespace: "read,write" and "read write" both give the scopes
\* {read, write} in the AuthContext of validate_token and in the AccessToken
\* of verify_token.
C18_ScopeStringParsing ==
    (Done(1) /\ runs[1].op \in {"validate_token", "verify_token"}
       /\ runs[1].out.kind \in {"ctx", "AccessToken"}
       /\ runs[1].resp.body.scope \in {CommaScope, DefaultScope})
        => Range(runs[1].out.ctx.scopes) = {Str_read, Str_write}

\* C19: no extractor raises: whatever the request holds in its headers,
\* metadata, session, connection and authorization fields -- nothing, an
\* empty value, a value that is not a string, a container that is not a map
\* -- the result is a token or none.
C19_ExtractionNeverRaises ==
    (Done(1) /\ runs[1].op = "extract_token") => runs[1].out.kind \in {"token", "none"}

\* the token the validator was called with, if it was called
ValidatedToken(r) ==
    IF Count(runs[r].calls, "validate") > 0 THEN runs[r].token ELSE NoToken

\* a result that counts as a token: present and not empty
FoundToken(res) == IF res.kind = "token" /\ res.s # NoStr THEN res ELSE NoToken

\* C20: on the Stdio transport the token that with_oauth validates is the
\* one StdioOAuthAdapter.extract_token finds -- metadata authorization,
\* then metadata auth, then the top-level authorization -- and nothing is
\* validated when it finds none.  Stated for requests on which neither
\* extraction raises.
C20_StdioValidatesExtractedToken ==
    (NonExempt(1) /\ runs[1].adapter = "stdio"
       /\ Stdio_extract_token(runs[1].req).kind # "raised"
       /\ runs[1].token.kind # "raised")
        => ValidatedToken(1) = FoundToken(Stdio_extract_token(runs[1].req))

\* the Authorization header under the casings a headers map may use
HeaderCasings == {"headers.authorization", "headers.Authorization", "headers.AUTHORIZATION"}

BearerTokenOf(v) == SubSeq(v.s, Len(Str_Bearer) + 1, Len(v.s))

\* C21: when the headers map holds "Bearer <token>" under some casing of
\* the Authorization key, the HTTP extractor returns that token, whatever
\* the casing and whatever a second casing of the key holds.
C21_HeaderCaseInsensitive ==
    (Done(1) /\ runs[1].op = "extract_token" /\ runs[1].adapter = "http"
       /\ runs[1].req.at["headers"] = VAbsent
       /\ (\A s \in HeaderCasings : runs[1].req.at[s].t \in {"absent", "str"})
       /\ (\E s \in HeaderCasings : IsBearerValue(runs[1].req.at[s])))
        => /\ runs[1].out.kind = "token"
           /\ \E s \in HeaderCasings :
                 IsBearerValue(runs[1].req.at[s]) /\ runs[1].out.s = BearerTokenOf(runs[1].req.at[s])

\* C22: the context validate_token builds expires at exp * 1000 whenever
\* the introspection answer has an exp, and at now + 3600000 only when it
\* has none.
C22_ExpiryFromExp ==
    (Done(1) /\ runs[1].op = "validate_token" /\ runs[1].out.kind = "ctx")
        => IF runs[1].resp.body.exp.t = "absent"
           THEN runs[1].out.ctx.expires_at = now + 3600000
           ELSE runs[1].out.ctx.expires_at = runs[1].resp.body.exp.v * 1000

\* C23: is_authenticated answers True only for a request whose bearer
\* token the validator would accept; a token that is present but invalid
\* gives False.
C23_AuthenticatedMeansValid ==
    (Done(1) /\ runs[1].op = "is_authenticated" /\ runs[1].out.kind = "True")
        => /\ runs[1].token.kind = "token"
           /\ validate_token(runs[1].resp, now).kind = "ctx"

\* C24: a request that a framework middleware lets through to the
\* downstream handler on a path that is not public carries a token whose
\* granted scopes include every scope of the configuration's required_scopes.
C24_MiddlewareEnforcesScopes ==
    (Done(1) /\ runs[1].op = "middleware" /\ ~_is_public_endpoint(runs[1].req.name)
       /\ runs[1].out.kind = "call_next")
        => Range(runs[1].cfg.required_scopes) \subseteq Range(runs[1].out.ctx.scopes)

\* C25: a call the breaker rejects while OPEN changes nothing: state,
\* failures and last_failure_time are what they were before the call, so the
\* moment the reset timeout elapses is not moved; get_state and get_stats
\* change nothing either and report the current state.
C25_RejectionLeavesBreaker ==
    /\ (last.op = "export" /\ last.result = "circuit_open")
         => /\ state = "OPEN" /\ last.pre.state = "OPEN"
            /\ failures = last.pre.failures
            /\ last_failure_time = last.pre.last_failure_time
            /\ last_failure_time + reset_timeout >= now
    /\ last.op \in {"get_state", "get_stats"}
         => /\ Breaker = last.pre
            /\ last.result = state

\* a call is rejected some time after the failure that opened the breaker
C25_Witness ==
    /\ last.op = "export" /\ last.result = "circuit_open"
    /\ last.pre.failures = failure_threshold
    /\ last.at > last.pre.last_failure_time
    /\ Breaker = last.pre

\* C26: in every reachable state, CLOSED means fewer failures on record
\* than failure_threshold, and OPEN or HALF_OPEN means at least
\* failure_threshold failures with last_failure_time the clock reading of a
\* failure that was booked.
C26_BreakerInvariant ==
    /\ state \in {"CLOSED", "OPEN", "HALF_OPEN"}
    /\ state = "CLOSED" => failures < failure_threshold
    /\ state \in {"OPEN", "HALF_OPEN"}
         => /\ failures >= failure_threshold
            /\ failed_at # 0
            /\ last_failure_time = failed_at
            /\ last_failure_time <= now

\* HALF_OPEN after a call admitted before the breaker opened has failed too
C26_Witness ==
    /\ state = "HALF_OPEN"
    /\ failures > failure_threshold
    /\ last_failure_time = failed_at
    /\ \E c \in Callers : calls[c].pc = "inflight" /\ calls[c].trial

\* C27: the breaker leaves OPEN for CLOSED only through a trial: when a
\* guarded call that was not admitted as the trial (so one admitted before
\* the breaker opened) completes while the breaker is OPEN, the breaker stays
\* OPEN and its failure counter is not reset.
C27_OnlyTrialCloses ==
    (last.op = "respond" /\ ~last.trial /\ last.pre.state = "OPEN")
        => /\ state = "OPEN"
           /\ failures >= last.pre.failures

\* C28: when the call admitted as the HALF_OPEN trial has finished, by an
\* answer of the sink or by cancellation, the breaker is CLOSED or OPEN.
C28_TrialLeavesHalfOpen ==
    (last.op \in {"respond", "cancel"} /\ last.trial)
        => state \in {"CLOSED", "OPEN"}

\* C29: recovery is live.  With the sink answering 200 from some point on,
\* time advancing and export being called again and again with spans, a
\* breaker that is OPEN is eventually CLOSED with failures 0 and stays so.
C29_RecoveryIsLive ==
    (state = "OPEN") ~> [](state = "CLOSED" /\ failures = 0)

\* the trial admitted after the reset timeout has closed the breaker
C29_Witness ==
    /\ SinkUp
    /\ last.op = "respond" /\ last.trial /\ last.result = "success"
    /\ last.pre.state = "HALF_OPEN"
    /\ last.pre.failures >= failure_threshold
    /\ state = "CLOSED" /\ failures = 0

\* C30: a handler wrapped by an adapter or transport decorator has its
\* tokens validated by a validator configured from that object's own config:
\* same authority, same server slug, and the scopes and exempt set the
\* wrapper enforces are those of the validator's config, whatever was
\* constructed or configured before the request.
C30_OwnAuthority ==
    \A r \in RunIds :
        (Done(r) /\ runs[r].op = "wrapped_call" /\ "validate" \in Range(runs[r].calls))
            => /\ authority(runs[r].validator) = authority(runs[r].cfg)
               /\ runs[r].validator.server_slug = runs[r].cfg.server_slug
               /\ runs[r].validator.required_scopes = runs[r].cfg.required_scopes
               /\ runs[r].validator.skip_validation_for = runs[r].cfg.skip_validation_for

====
